---- MODULE Spec2Model ----
(***************************************************************************)
(* A model of the Meta Ads data fetcher (package meta_ads).                *)
(*                                                                         *)
(* Part 1, MetaAdsAPIClient (utils/api_client.py): the retry wrapper        *)
(* retry_with_backoff, the spacing handler _handle_rate_limiting, the      *)
(* paginated make_request, get_insights and validate_access, run against   *)
(* a remote service that answers every HTTP call as it likes.              *)
(*                                                                         *)
(* Part 2, MetricCalculator (utils/metrics.py): the derived ratios, in     *)
(* exact rational arithmetic.                                              *)
(*                                                                         *)
(* Time is in whole seconds.  A text (a log line, an exception message, a  *)
(* URL) is a sequence of chunks; the access token is one chunk, so that    *)
(* "the token occurs in the text" is "the chunk is an element of it".      *)
(***************************************************************************)
EXTENDS Integers, Sequences, FiniteSets, TLC

(***************************************************************************)
(* Bounds of the model.                                                    *)
(***************************************************************************)
\* the longest page chain the remote service serves for one attempt
MaxPages == 3
\* the largest _retry_count earlier calls have left behind when the run starts
MaxPriorRetryCount == 1
\* time.time() when the client is constructed
StartTime == 1000
\* the largest count (impressions, reach, clicks, spend) of an insight record
MaxCount == 3
\* the longest series of HTTP calls one client makes
MaxCalls == 8

(***************************************************************************)
(* Program constants.                                                      *)
(***************************************************************************)
max_retries == 3
initial_delay == 5
base_wait_time == 5
max_wait_time == 300
request_timeout == 30
insights_limit == 100

access_token == "TOKEN"
account_id == "123"
BASE_URL == "https://graph.facebook.com/v18.0"

ATTRIBUTION_WINDOWS ==
    [ x \in {"1d_click", "7d_click", "28d_click", "1d_view", "7d_view", "default"} |->
        CASE x = "1d_click"  -> [action_attribution_windows |-> <<"1d_click">>]
          [] x = "7d_click"  -> [action_attribution_windows |-> <<"7d_click">>]
          [] x = "28d_click" -> [action_attribution_windows |-> <<"28d_click">>]
          [] x = "1d_view"   -> [action_attribution_windows |-> <<"1d_view">>]
          [] x = "7d_view"   -> [action_attribution_windows |-> <<"7d_view">>]
          [] x = "default"   -> [action_attribution_windows |-> <<"7d_click", "1d_view">>] ]

(***************************************************************************)
(* Helpers.                                                                *)
(***************************************************************************)
Range(s) == { s[i] : i \in DOMAIN s }

Min(a, b) == IF a < b THEN a ELSE b

RECURSIVE Pow2(_)
Pow2(n) == IF n = 0 THEN 1 ELSE 2 * Pow2(n - 1)

\* dict.update: the keys of q override those of p
Update(p, q) ==
    [ k \in (DOMAIN p) \cup (DOMAIN q) |-> IF k \in DOMAIN q THEN q[k] ELSE p[k] ]

\* ",".join(fields), as a text
RECURSIVE Join(_)
Join(fields) ==
    IF fields = <<>> THEN <<>>
    ELSE IF Len(fields) = 1 THEN <<fields[1]>>
    ELSE <<fields[1], ",">> \o Join(Tail(fields))

(***************************************************************************)
(* Exceptions: the type, str(e) as a text, and e.response.text (the empty  *)
(* text when the exception carries no response).                           *)
(***************************************************************************)
NoException == [type |-> "None", msg |-> <<>>, has_response |-> FALSE, response |-> <<>>]

Exc(type, msg) == [type |-> type, msg |-> msg, has_response |-> FALSE, response |-> <<>>]

\* requests >= 2.28 (setup.py): JSONDecodeError is a RequestException too
IsRequestException(e) ==
    e.type \in {"HTTPError", "ConnectionError", "Timeout", "JSONDecodeError"}

\* the chunks of the model's texts whose lower case contains "rate limit"
RateLimitChunks == {"Rate limit reached", "Rate Limit Exceeded", "rate limit"}

\* "rate limit" in str(e).lower()
HasRateLimitPhrase(text) == \E i \in DOMAIN text : text[i] \in RateLimitChunks

\* a wrapper that forgets the exponent: every backoff sleep is the delay
BackoffSleepTimeFlat(delay, r) == delay

\* sleep_time = delay * (2 ** retry)
BackoffSleepTime(delay, r) == delay * Pow2(r)

\* _mask_sensitive_data
MaskSensitiveData(text) ==
    IF access_token \in Range(text)
    THEN [ i \in DOMAIN text |-> IF text[i] = access_token THEN "****" ELSE text[i] ]
    ELSE text

(***************************************************************************)
(* The remote service.  An HTTP exchange ends in a response (status line,  *)
(* body) or in a transport failure.  A body is a JSON object with a data   *)
(* array and perhaps a paging.next cursor, JSON that is no object, or no   *)
(* JSON at all; text_rl says whether the body text contains the rate-limit *)
(* phrase.  A JSON object without a data key reads as an empty array       *)
(* (data.get('data', [])).                                                 *)
(***************************************************************************)
PageData == { <<>>, <<"a">>, <<"b", "c">> }

Http(status, reason, body, text_rl, data, next) ==
    [kind |-> "http", status |-> status, reason |-> reason, body |-> body,
     text_rl |-> text_rl, data |-> data, next |-> next]

Transport(kind) ==
    [kind |-> kind, status |-> 0, reason |-> "", body |-> "none",
     text_rl |-> FALSE, data |-> <<>>, next |-> FALSE]

Responses ==
    { Http(200, "OK", "object", FALSE, d, n) : d \in PageData, n \in BOOLEAN }
    \cup { Http(200, "OK", "object", TRUE, <<"a">>, FALSE),
           Http(429, "Too Many Requests", "object", FALSE, <<>>, FALSE),
           Http(400, "Bad Request", "object", TRUE, <<>>, FALSE),
           Http(400, "Bad Request", "object", FALSE, <<>>, FALSE),
           Http(503, "Rate Limit Exceeded", "garbage", FALSE, <<>>, FALSE),
           Http(200, "OK", "garbage", FALSE, <<>>, FALSE),
           Http(200, "OK", "list", FALSE, <<>>, FALSE),
           Transport("connection_error"),
           Transport("timeout") }

\* response.text
ResponseText(resp) ==
    IF resp.text_rl THEN <<"body: ", "rate limit">> ELSE <<"body">>

\* the remote service's own view: the exchange is a rate-limit condition
IsRateLimitCondition(resp) ==
    resp.kind = "http" /\ (resp.status = 429 \/ resp.text_rl)

\* the URL of the first call of an attempt: GET carries params in the query string
RequestUrl(m, ep) ==
    IF m = "GET" THEN <<BASE_URL, "/", ep, "?access_token=", access_token>>
    ELSE <<BASE_URL, "/", ep>>

\* paging.next, as the remote service writes it
NextUrl == <<BASE_URL, "/next", "?access_token=", access_token>>

\* the time an exchange takes: a timeout takes the whole timeout
Duration(resp) == IF resp.kind = "timeout" THEN request_timeout ELSE 0


(***************************************************************************)
(* State.  The client's fields, the arguments and the position of the one  *)
(* operation in progress (single-threaded, spec section 5), the retry      *)
(* wrapper's and make_request's locals, and what the run has seen so far:  *)
(* the HTTP calls, the sleeps, the log.                                    *)
(***************************************************************************)
VARIABLES
    now,                \* time.time()
    last_request_time,  \* self.last_request_time
    _retry_count,       \* self._retry_count (0 until first set, line 85-86)
    pc,                 \* "idle", "attempt", "paging", "done", "raised"
    op,                 \* the operation the caller invoked
    args,               \* its arguments: endpoint, params, method (and get_insights' own)
    retry,              \* the wrapper's loop variable
    last_exception,     \* the wrapper's last_exception
    all_data,           \* make_request's all_data
    pages,              \* the data arrays served to the current attempt, in order
    ended,              \* per finished attempt: how it ended (SpecSpacing: per call)
    calls,              \* HTTP calls issued for the current operation
    sleeps,             \* the wrapper's backoff sleeps of the current operation
    sent,               \* the last HTTP call: url, params
    gap,                \* the last HTTP call's time minus the time recorded before it
    log,                \* the log lines emitted
    raised,             \* the exception make_request raised to its caller, if any
    result              \* what the operation returned to its caller

(***************************************************************************)
(* MetricCalculator's input and output: one insight record, and the        *)
(* metrics computed from it.                                               *)
(***************************************************************************)
VARIABLES
    record,             \* the insight record handed to the calculator (data)
    metrics             \* what the calculator returned

metricVars == <<record, metrics>>

(***************************************************************************)
(* The arguments and results of MetricCalculator's functions over metric   *)
(* maps.                                                                   *)
(***************************************************************************)
VARIABLES
    current_period,     \* calculate_period_over_period_changes' first argument
    previous_period,    \* and its second
    changes,            \* what it returned
    metrics_list,       \* aggregate_metrics' argument
    aggregated          \* what it returned

calculatorVars == <<current_period, previous_period, changes, metrics_list, aggregated>>

(***************************************************************************)
(* A fetcher (CampaignFetcher, AdSetFetcher or AdFetcher), the remote      *)
(* service's answers to it, and the export directory.                      *)
(***************************************************************************)
VARIABLES
    data_type,          \* "campaign", "adset" or "ad": the fetcher at work
    entities,           \* the service's entity list of each type
    insights,           \* the service's insight records of each entity id
    date_ranges,        \* get_performance_data's arguments
    attribution_windows,
    fetcher_pc,         \* "idle", "fetch", "process", "returned", "exported", "raised"
    entity_data,        \* get_performance_data's data
    pair_index,         \* the (date_range, attribution) pair the loops are at
    processed_data,     \* the outcome of the last process_data pass
    performance_data,   \* get_performance_data's performance_data
    api_calls,          \* the client calls the fetchers issued, in order
    files,              \* the paths written under the export directory
    failure             \* the exception a fetcher operation raised, or "None"

fetcherVars ==
    <<data_type, entities, insights, date_ranges, attribution_windows, fetcher_pc,
      entity_data, pair_index, processed_data, performance_data, api_calls, files,
      failure>>

(***************************************************************************)
(* MetaAdsDataManager: which main module runs, where fetch_all_data is,    *)
(* and what it printed.                                                    *)
(***************************************************************************)
VARIABLES
    manager,            \* "none", "meta_ads/main.py" or "meta-ads-main.py"
    manager_pc,         \* "none", "start", "fetching", "completed", "raised", and
                        \* "returned" or "propagated" once main() is over
    stdout              \* the lines printed by fetch_all_data

managerVars == <<manager, manager_pc, stdout>>

\* the state the client does not touch
outsideClient == <<metricVars, calculatorVars, fetcherVars, managerVars>>

clientVars ==
    <<now, last_request_time, _retry_count, pc, op, args, retry, last_exception,
      all_data, pages, ended, calls, sleeps, sent, gap, log, raised, result>>

\* the state MetricCalculator does not touch
outsideCalculator == <<clientVars, fetcherVars, managerVars>>

NoArgs == [endpoint |-> "", params |-> <<>>, method |-> ""]

NoCall == [kind |-> "none", url |-> <<>>, params |-> <<>>]

\* the time the caller has let pass since the client's previous call
IdleGaps == {0, 7}

(***************************************************************************)
(* The client when the operation starts: just constructed (lines 55-58),   *)
(* or g seconds after an earlier call that left _retry_count at rc (a call *)
(* that did not sleep leaves 0, the k-th of back-to-back calls leaves k).  *)
(***************************************************************************)
ClientStart(last, rc) ==
    /\ now = StartTime
    /\ last_request_time = last
    /\ _retry_count = rc
    /\ pc = "idle"
    /\ op = "none"
    /\ args = NoArgs
    /\ retry = 0
    /\ last_exception = NoException
    /\ all_data = <<>>
    /\ pages = <<>>
    /\ ended = <<>>
    /\ calls = 0
    /\ sleeps = <<>>
    /\ sent = NoCall
    /\ gap = 0
    /\ log = {}
    /\ raised = NoException
    /\ result = "none"

ClientInit ==
    \/ ClientStart(0, 0)
    \/ \E g \in IdleGaps, rc \in 0..MaxPriorRetryCount : ClientStart(StartTime - g, rc)

\* a handler that computes the wait, counts it, and does not sleep
HandleRateLimitingNoSleep(t, last, rc) ==
    LET wait_time == Min(base_wait_time * Pow2(rc), max_wait_time)
    IN  IF t - last < wait_time
        THEN [now |-> t, last_request_time |-> t, retry_count |-> rc + 1, slept |-> 0]
        ELSE [now |-> t, last_request_time |-> t, retry_count |-> 0, slept |-> 0]

\* a handler whose wait has no ceiling
HandleRateLimitingUncapped(t, last, rc) ==
    LET wait_time == base_wait_time * Pow2(rc)
        sleep_time == wait_time - (t - last)
    IN  IF t - last < wait_time
        THEN [now |-> t + sleep_time, last_request_time |-> t + sleep_time,
              retry_count |-> rc + 1, slept |-> sleep_time]
        ELSE [now |-> t, last_request_time |-> t, retry_count |-> 0, slept |-> 0]

(***************************************************************************)
(* _handle_rate_limiting, called at time t: the client's spacing state     *)
(* after it, and the time at which it returns.                             *)
(***************************************************************************)
HandleRateLimiting(t, last, rc) ==
    LET wait_time == Min(base_wait_time * Pow2(rc), max_wait_time)
        sleep_time == wait_time - (t - last)
    IN  IF t - last < wait_time
        THEN [now |-> t + sleep_time, last_request_time |-> t + sleep_time,
              retry_count |-> rc + 1, slept |-> sleep_time]
        ELSE [now |-> t, last_request_time |-> t, retry_count |-> 0, slept |-> 0]

(***************************************************************************)
(* The exception (NoException: none) that make_request's code raises on    *)
(* the response to the first call of an attempt (lines 152-158, 161) ...   *)
(***************************************************************************)
HttpErrorOf(resp, url) ==
    [type |-> "HTTPError",
     msg |-> <<ToString(resp.status), " Error: ", resp.reason, " for url: ">> \o url,
     has_response |-> TRUE, response |-> ResponseText(resp)]

TransportErrorOf(resp, url) ==
    IF resp.kind = "connection_error"
    THEN Exc("ConnectionError", <<"Max retries exceeded with url: ">> \o url)
    ELSE Exc("Timeout", <<"Read timed out. (read timeout=30)">>)

BodyErrorOf(resp) ==
    IF resp.body = "garbage" THEN Exc("JSONDecodeError", <<"Expecting value">>)
    ELSE IF resp.body = "list" THEN Exc("AttributeError", <<"'list' object has no attribute 'get'">>)
    ELSE NoException

FirstCallError(resp, url) ==
    IF resp.kind # "http" THEN TransportErrorOf(resp, url)
    ELSE IF resp.status = 429 \/ resp.text_rl THEN Exc("Exception", <<"Rate limit reached">>)
    ELSE IF resp.status >= 400 THEN HttpErrorOf(resp, url)
    ELSE BodyErrorOf(resp)

(***************************************************************************)
(* ... and on the response to a pagination call (lines 167-170).           *)
(***************************************************************************)
NextCallError(resp, url) ==
    IF resp.kind # "http" THEN TransportErrorOf(resp, url)
    ELSE IF resp.status >= 400 THEN HttpErrorOf(resp, url)
    ELSE BodyErrorOf(resp)

\* an attempt that goes on from what the attempt before it had collected
FirstPageAfterEarlier(all, data) == all \o data

\* all_data = data.get('data', []) (line 162): a local of the attempt, all
\* being what the variable held before
FirstPage(all, data) == data

\* a loop that puts the new page in front of the earlier ones
ExtendInFront(all, data) == data \o all

\* all_data.extend(next_data.get('data', []))
Extend(all, data) == all \o data

(***************************************************************************)
(* The log lines of make_request's except clause (lines 177-183): only a   *)
(* RequestException is caught there.                                       *)
(***************************************************************************)
ErrorLogLines(e) ==
    IF IsRequestException(e)
    THEN {<<"API Error: ">> \o MaskSensitiveData(e.msg)}
         \cup (IF e.has_response
               THEN {<<"Response: ">> \o MaskSensitiveData(e.response)}
               ELSE {})
    ELSE {}

\* the wrapper's test (line 35): does it sleep and retry on e
RetriesOn(e) == HasRateLimitPhrase(e.msg)

\* a wrapper that raises after the last round without sleeping first
SleepsUnlessLastRound(e, r) == HasRateLimitPhrase(e.msg) /\ r + 1 < max_retries

\* time.sleep(sleep_time) (lines 36-38) is inside the test of line 35 and
\* ahead of continue: round r sleeps whenever it retries on e
Sleeps(e, r) == RetriesOn(e)

\* a loop that runs one round too many
LoopContinuesOnceMore(r) == r < max_retries

\* for retry in range(max_retries) (line 30): is there a round after round r
LoopContinues(r) == r + 1 < max_retries

\* an except clause for requests' own exceptions only
CatchesRequestExceptionsOnly(e) == IsRequestException(e)

\* validate_access's except clause (lines 258-260) catches e
ValidateAccessCatches(e) == e.type # "None"

\* the line validate_access logs for a caught exception (line 259)
ValidationFailedLine(e) == <<"API access validation failed: ">> \o e.msg

(***************************************************************************)
(* make_request's code raises e at time t, with lg the log so far: the     *)
(* except clause, then the wrapper (lines 33-42), then, if the wrapper     *)
(* raises, the caller (validate_access catches, the others do not).        *)
(***************************************************************************)
Raise(e, t, lg, how) ==
    LET sleep_time == BackoffSleepTime(initial_delay, retry)
        lg1 == lg \cup ErrorLogLines(e)
        lg2 == IF RetriesOn(e)
               THEN lg1 \cup {<<"Rate limit hit. Retrying in ", ToString(sleep_time), " seconds...">>}
               ELSE lg1
    IN  /\ last_exception' = e
        /\ ended' = Append(ended, how)
        /\ IF Sleeps(e, retry)
           THEN /\ now' = t + sleep_time
                /\ sleeps' = Append(sleeps, sleep_time)
           ELSE /\ now' = t
                /\ sleeps' = sleeps
        /\ IF RetriesOn(e) /\ LoopContinues(retry)
           THEN /\ retry' = retry + 1
                /\ pc' = "attempt"
                /\ log' = lg2
                /\ UNCHANGED <<raised, result>>
           ELSE /\ retry' = retry
                /\ raised' = e
                /\ IF op = "validate_access" /\ ValidateAccessCatches(e)
                   THEN /\ pc' = "done"
                        /\ result' = "False"
                        /\ log' = lg2 \cup {ValidationFailedLine(e)}
                   ELSE /\ pc' = "raised"
                        /\ result' = "exception"
                        /\ log' = lg2

(***************************************************************************)
(* make_request returns data at time t (lines 174-175); the wrapper        *)
(* returns it, and validate_access turns it into True (lines 255-256).     *)
(***************************************************************************)
Return(data, t, lg) ==
    /\ now' = t
    /\ pc' = "done"
    /\ ended' = Append(ended, [call |-> "none", cond |-> "ok"])
    /\ result' = IF op = "validate_access" THEN "True" ELSE "data"
    /\ log' = lg \cup {<<"Successfully retrieved ", ToString(Len(data)), " records">>}
                 \cup (IF op = "validate_access"
                       THEN {<<"API access validation successful">>} ELSE {})
    /\ UNCHANGED <<retry, last_exception, sleeps, raised>>


(***************************************************************************)
(* The caller's inputs.                                                    *)
(***************************************************************************)
Methods == {"GET", "POST", "PUT", "rate limit"}

Endpoints == {"act_123/campaigns"}

ListParams == { [fields |-> Join(<<"id", "name">>), limit |-> 500] }

FieldLists == { <<"spend">>, <<"spend", "impressions", "actions">> }

Levels == {"campaign", "adset", "ad"}

WindowNames == (DOMAIN ATTRIBUTION_WINDOWS) \cup {"30d_click"}

ObjectIds == {"c1"}

(***************************************************************************)
(* The caller starts an operation: the wrapper's locals are fresh (lines   *)
(* 27-28).                                                                 *)
(***************************************************************************)
Begin(o, a, lg) ==
    /\ pc = "idle"
    /\ op' = o
    /\ args' = a
    /\ pc' = "attempt"
    /\ retry' = 0
    /\ last_exception' = NoException
    /\ log' = lg
    /\ UNCHANGED <<now, last_request_time, _retry_count, all_data, pages, ended,
                   calls, sleeps, sent, gap, raised, result>>
    /\ UNCHANGED outsideClient

\* how the next HTTP call of a series arrives: the seconds since the client
\* recorded the previous one, and whether the service answers this one with
\* a rate-limit response
Arrivals ==
    { [elapsed |-> 0, limited |-> FALSE],
      [elapsed |-> 7, limited |-> TRUE],
      [elapsed |-> max_wait_time + 100, limited |-> FALSE] }

\* _handle_rate_limiting at the head of one HTTP call of a series (lines
\* 80-102, called at 131 and 167); ended keeps, per call, what the handler
\* saw and did
HandleRateLimitingCall(a) ==
    /\ pc = "idle"
    /\ calls < MaxCalls
    /\ LET h == HandleRateLimiting(now + a.elapsed, last_request_time, _retry_count)
       IN  /\ now' = h.now
           /\ last_request_time' = h.last_request_time
           /\ _retry_count' = h.retry_count
           /\ gap' = h.now - last_request_time
           /\ ended' = Append(ended,
                  [call |-> "spaced",
                   cond |-> IF a.limited THEN "rate_limit" ELSE "other",
                   elapsed |-> (now + a.elapsed) - last_request_time,
                   slept |-> h.slept,
                   before |-> _retry_count,
                   after |-> h.retry_count])
    /\ calls' = calls + 1
    /\ UNCHANGED <<pc, op, args, retry, last_exception, all_data, pages, sleeps, sent,
                   log, raised, result>>
    /\ UNCHANGED outsideClient

\* make_request(endpoint, params, method), called directly
MakeRequest(ep, ps, m) ==
    /\ m \in Methods
    /\ Begin("make_request", [endpoint |-> ep, params |-> ps, method |-> m], {})

\* params that carry the window's name instead of the table's list
InsightsParamsByName(fields, attribution_window, level) ==
    [fields |-> Join(fields),
     level |-> level,
     time_range |-> [since |-> "2024-01-01", until |-> "2024-11-17"],
     limit |-> insights_limit,
     action_attribution_windows |-> <<attribution_window>>]

\* params that fall back on the "default" windows for a name not in the table
InsightsParamsDefaulted(fields, attribution_window, level) ==
    Update([fields |-> Join(fields),
            level |-> level,
            time_range |-> [since |-> "2024-01-01", until |-> "2024-11-17"],
            limit |-> insights_limit],
           ATTRIBUTION_WINDOWS[IF attribution_window \in DOMAIN ATTRIBUTION_WINDOWS
                               THEN attribution_window ELSE "default"])

\* the params get_insights builds (lines 195-203)
InsightsParams(fields, attribution_window, level) ==
    LET params == [fields |-> Join(fields),
                   level |-> level,
                   time_range |-> [since |-> "2024-01-01", until |-> "2024-11-17"],
                   limit |-> insights_limit]
    IN  IF attribution_window \in DOMAIN ATTRIBUTION_WINDOWS
        THEN Update(params, ATTRIBUTION_WINDOWS[attribution_window])
        ELSE params

\* get_insights (lines 187-206)
GetInsights(object_id, fields, attribution_window, level) ==
    /\ level \in Levels
    /\ Begin("get_insights",
          [endpoint |-> object_id \o "/insights",
           params |-> InsightsParams(fields, attribution_window, level),
           method |-> "GET",
           object_id |-> object_id, fields |-> fields,
           attribution_window |-> attribution_window, level |-> level],
          {})

\* validate_access up to its make_request (lines 249-254)
ValidateAccess ==
    /\ account_id # ""
    /\ Begin("validate_access",
          [endpoint |-> "act_" \o account_id,
           params |-> [fields |-> <<"name,account_status,business_name,currency,timezone_name">>],
           method |-> "GET"],
          {<<"Validating API access">>})

(***************************************************************************)
(* One attempt of the wrapper (line 32), up to the response to its first   *)
(* HTTP call: lines 131-162, and 174-175 when the page has no cursor.      *)
(***************************************************************************)
MakingLine == <<"Making ", args.method, " request to ", args.endpoint>>

Attempt(resp) ==
    /\ pc = "attempt"
    /\ args.method \in {"GET", "POST"}
    /\ resp.next => MaxPages > 1
    /\ LET h == HandleRateLimiting(now, last_request_time, _retry_count)
           url == RequestUrl(args.method, args.endpoint)
           e == FirstCallError(resp, url)
           t == h.now + Duration(resp)
           lg == log \cup {MakingLine}
           ps == Update(args.params, [access_token |-> access_token])
       IN  /\ last_request_time' = h.last_request_time
           /\ _retry_count' = h.retry_count
           /\ gap' = h.now - last_request_time
           /\ calls' = calls + 1
           /\ args' = [args EXCEPT !.params = ps]
           /\ sent' = [kind |-> "first", url |-> url, params |-> ps]
           /\ IF e # NoException
              THEN /\ all_data' = <<>>
                   /\ pages' = <<>>
                   /\ Raise(e, t, lg,
                            [call |-> "first",
                             cond |-> IF IsRateLimitCondition(resp) THEN "rate_limit" ELSE "other"])
              ELSE /\ all_data' = FirstPage(all_data, resp.data)
                   /\ pages' = <<resp.data>>
                   /\ IF resp.next
                      THEN /\ pc' = "paging"
                           /\ now' = t
                           /\ log' = lg
                           /\ UNCHANGED <<retry, last_exception, ended, sleeps, raised, result>>
                      ELSE Return(resp.data, t, lg)
    /\ UNCHANGED op
    /\ UNCHANGED outsideClient

\* an attempt with a method that is neither GET nor POST: lines 131-150
AttemptUnsupportedMethod ==
    /\ pc = "attempt"
    /\ args.method \notin {"GET", "POST"}
    /\ LET h == HandleRateLimiting(now, last_request_time, _retry_count)
           e == Exc("ValueError", <<"Unsupported HTTP method: ", args.method>>)
           ps == Update(args.params, [access_token |-> access_token])
       IN  /\ last_request_time' = h.last_request_time
           /\ _retry_count' = h.retry_count
           /\ args' = [args EXCEPT !.params = ps]
           /\ all_data' = <<>>
           /\ pages' = <<>>
           /\ Raise(e, h.now, log \cup {MakingLine}, [call |-> "none", cond |-> "other"])
    /\ UNCHANGED <<op, calls, sent, gap>>
    /\ UNCHANGED outsideClient

(***************************************************************************)
(* One round of the pagination loop: lines 164-172, and 174-175 when the   *)
(* page has no cursor.                                                     *)
(***************************************************************************)
NextPage(resp) ==
    /\ pc = "paging"
    /\ resp.next => Len(pages) + 1 < MaxPages
    /\ LET h == HandleRateLimiting(now, last_request_time, _retry_count)
           e == NextCallError(resp, NextUrl)
           t == h.now + Duration(resp)
           all == Extend(all_data, resp.data)
       IN  /\ last_request_time' = h.last_request_time
           /\ _retry_count' = h.retry_count
           /\ gap' = h.now - last_request_time
           /\ calls' = calls + 1
           /\ sent' = [kind |-> "next", url |-> NextUrl, params |-> <<>>]
           /\ IF e # NoException
              THEN /\ UNCHANGED <<all_data, pages>>
                   /\ Raise(e, t, log,
                            [call |-> "next",
                             cond |-> IF IsRateLimitCondition(resp) THEN "rate_limit" ELSE "other"])
              ELSE /\ all_data' = all
                   /\ pages' = Append(pages, resp.data)
                   /\ IF resp.next
                      THEN /\ pc' = "paging"
                           /\ now' = t
                           /\ UNCHANGED <<retry, last_exception, ended, sleeps, raised, result, log>>
                      ELSE Return(all, t, log)
    /\ UNCHANGED <<op, args>>
    /\ UNCHANGED outsideClient

(***************************************************************************)
(* MetricCalculator.  A float is an exact fraction n/d in lowest terms;    *)
(* DivError stands for a raised ZeroDivisionError.  The remote service     *)
(* sends the counts of an insight record as numeric strings.               *)
(***************************************************************************)
RECURSIVE GCD(_, _)
GCD(a, b) == IF b = 0 THEN a ELSE GCD(b, a % b)

Frac(n, d) == LET g == GCD(n, d) IN [n |-> n \div g, d |-> d \div g]

Zero == [n |-> 0, d |-> 1]

DivError == [n |-> 0, d |-> 0]

\* a / b
FloatDiv(a, b) ==
    IF a = DivError \/ b = DivError \/ b.n = 0 THEN DivError
    ELSE Frac(a.n * b.d, a.d * b.n)

\* a * k, k a whole number
FloatMul(a, k) == IF a = DivError THEN DivError ELSE Frac(a.n * k, a.d)

\* float(v) of a numeric string, or of the default 0
Float(v) ==
    IF v = "0" THEN Zero
    ELSE LET k == CHOOSE k \in 0..(MaxCount + 1) : ToString(k) = v IN [n |-> k, d |-> 1]

\* data.get(key, 0)
Get(d, key) == IF key \in DOMAIN d THEN d[key] ELSE "0"

NoMetrics ==
    [fn |-> "none", raised |-> FALSE,
     frequency |-> Zero, ctr |-> Zero, cpc |-> Zero, cpm |-> Zero]

\* a calculator whose frequency is guarded by impressions instead of reach
calculate_basic_metrics_wrong_guard(d) ==
    LET impressions == Float(Get(d, "impressions"))
        reach == Float(Get(d, "reach"))
        clicks == Float(Get(d, "clicks"))
        spend == Float(Get(d, "spend"))
        frequency == IF impressions.n > 0 THEN FloatDiv(impressions, reach) ELSE Zero
        ctr == IF impressions.n > 0 THEN FloatMul(FloatDiv(clicks, impressions), 100) ELSE Zero
        cpc == IF clicks.n > 0 THEN FloatDiv(spend, clicks) ELSE Zero
        cpm == IF impressions.n > 0 THEN FloatMul(FloatDiv(spend, impressions), 1000) ELSE Zero
    IN  IF DivError \in {frequency, ctr, cpc, cpm}
        THEN [NoMetrics EXCEPT !.fn = "basic", !.raised = TRUE]
        ELSE [fn |-> "basic", raised |-> FALSE,
              frequency |-> frequency, ctr |-> ctr, cpc |-> cpc, cpm |-> cpm]

\* calculate_basic_metrics (lines 21-39)
calculate_basic_metrics(d) ==
    LET impressions == Float(Get(d, "impressions"))
        reach == Float(Get(d, "reach"))
        clicks == Float(Get(d, "clicks"))
        spend == Float(Get(d, "spend"))
        frequency == IF reach.n > 0 THEN FloatDiv(impressions, reach) ELSE Zero
        ctr == IF impressions.n > 0 THEN FloatMul(FloatDiv(clicks, impressions), 100) ELSE Zero
        cpc == IF clicks.n > 0 THEN FloatDiv(spend, clicks) ELSE Zero
        cpm == IF impressions.n > 0 THEN FloatMul(FloatDiv(spend, impressions), 1000) ELSE Zero
    IN  IF DivError \in {frequency, ctr, cpc, cpm}
        THEN [NoMetrics EXCEPT !.fn = "basic", !.raised = TRUE]
        ELSE [fn |-> "basic", raised |-> FALSE,
              frequency |-> frequency, ctr |-> ctr, cpc |-> cpc, cpm |-> cpm]

BasicKeys == {"impressions", "reach", "clicks", "spend"}

Counts == { ToString(k) : k \in 0..MaxCount }

\* the insight records: every key may be missing
InsightRecords == UNION { [K -> Counts] : K \in SUBSET BasicKeys }

MetricsIdle == record = <<>> /\ metrics = NoMetrics

MetricsInit == record \in InsightRecords /\ metrics = NoMetrics

CalculateBasicMetrics ==
    /\ metrics.fn = "none"
    /\ metrics' = calculate_basic_metrics(record)
    /\ UNCHANGED <<record, calculatorVars, outsideCalculator>>

(***************************************************************************)
(* calculate_conversion_metrics.  The record's "actions" is a list of      *)
(* {action_type, value} objects; its "action_values" is read with .get as  *)
(* a mapping, and the remote service's lists of action objects are lists.  *)
(* The returned mapping holds a key only if the code assigned it.          *)
(***************************************************************************)
MaxActions == 2

ActionTypes == {"purchase", "add_to_cart", "initiate_checkout"}

\* the numeric strings of a record's fields and action values
ConversionCounts == {"0", "1", "2"}

Action(t, v) == [action_type |-> t, value |-> v]

ActionLists ==
    UNION { [1..n -> { Action(t, v) : t \in ActionTypes, v \in ConversionCounts }] :
            n \in 0..MaxActions }

\* the empty mapping, {}
Empty == [k \in {} |-> "0"]

\* a value that is a mapping / a value that is a list
Dict(items) == [dict |-> items]

List(items) == [list |-> items]

IsDict(v) == "dict" \in DOMAIN v

\* the dict comprehension of lines 57-60: a later entry of the same
\* action_type replaces an earlier one
ActionValues(actions) ==
    [ t \in { actions[i].action_type : i \in DOMAIN actions } |->
        LET last == CHOOSE i \in DOMAIN actions :
                        /\ actions[i].action_type = t
                        /\ \A j \in DOMAIN actions : actions[j].action_type = t => j <= i
        IN  Float(actions[last].value) ]

\* d.get(key, default) / {key: value}
GetOr(d, key, default) == IF key \in DOMAIN d THEN d[key] ELSE default

Entry(key, value) == [k \in {key} |-> value]

\* the outcome of a calculator call: raised, or the mapping returned
Raised(fn) == [fn |-> fn, raised |-> TRUE, values |-> <<>>]

Returned(fn, values) == [fn |-> fn, raised |-> FALSE, values |-> values]

\* calculate_conversion_metrics (lines 52-83)
calculate_conversion_metrics(d) ==
    LET spend == Float(Get(d, "spend"))
        actions == IF "actions" \in DOMAIN d THEN d["actions"] ELSE <<>>
        action_values == ActionValues(actions)
        purchases == GetOr(action_values, "purchase", Zero)
        adds_to_cart == GetOr(action_values, "add_to_cart", Zero)
        checkouts == GetOr(action_values, "initiate_checkout", Zero)
        impressions == Float(Get(d, "impressions"))
        rates ==
            IF impressions.n > 0
            THEN [purchase_rate |-> FloatMul(FloatDiv(purchases, impressions), 100),
                  add_to_cart_rate |-> FloatMul(FloatDiv(adds_to_cart, impressions), 100),
                  checkout_rate |-> FloatMul(FloatDiv(checkouts, impressions), 100)]
            ELSE <<>>
        costs ==
            IF spend.n > 0
            THEN [cost_per_purchase |->
                      IF purchases.n > 0 THEN FloatDiv(spend, purchases) ELSE Zero,
                  cost_per_add_to_cart |->
                      IF adds_to_cart.n > 0 THEN FloatDiv(spend, adds_to_cart) ELSE Zero,
                  cost_per_checkout |->
                      IF checkouts.n > 0 THEN FloatDiv(spend, checkouts) ELSE Zero]
            ELSE <<>>
        \* data.get('action_values', {})
        values == IF "action_values" \in DOMAIN d THEN d["action_values"] ELSE Dict(Empty)
    IN  IF ~IsDict(values)
        THEN Raised("conversion")   \* AttributeError: a list has no .get
        ELSE LET purchase_value == Float(Get(values.dict, "purchase"))
                 roas == IF spend.n > 0 THEN FloatDiv(purchase_value, spend) ELSE Zero
             IN  Returned("conversion", Update(Update(rates, costs), [roas |-> roas]))

\* one optional key of a record
Optional(key, S) == {Empty} \cup { [k \in {key} |-> x] : x \in S }

PurchaseValues ==
    { Dict(Empty), Dict([purchase |-> "0"]), Dict([purchase |-> "2"]),
      List(<<Action("purchase", "2")>>) }

ConversionRecords ==
    { Update(Update(Update(s, i), a), v) :
        s \in Optional("spend", ConversionCounts),
        i \in Optional("impressions", ConversionCounts),
        a \in Optional("actions", ActionLists),
        v \in Optional("action_values", PurchaseValues) }

CalculateConversionMetrics ==
    /\ metrics.fn = "none"
    /\ metrics' = calculate_conversion_metrics(record)
    /\ UNCHANGED <<record, calculatorVars, outsideCalculator>>

(***************************************************************************)
(* calculate_period_over_period_changes.  A metric map holds floats; the   *)
(* metrics of this program are counts, amounts and ratios, none negative.  *)
(***************************************************************************)
NoResult == [fn |-> "none", raised |-> FALSE, values |-> Empty]

\* a - b
FloatSub(a, b) == Frac(a.n * b.d - b.n * a.d, a.d * b.d)

MetricValues == { Frac(k, 1) : k \in 0..MaxCount }

MetricMaps == UNION { [K -> MetricValues] : K \in SUBSET {"spend", "ctr", "clicks"} }

\* a change that is 0 whenever previous is 0
ChangeWithoutCeiling(current_value, previous_value) ==
    IF previous_value.n # 0
    THEN FloatMul(FloatDiv(FloatSub(current_value, previous_value), previous_value), 100)
    ELSE Zero

\* lines 201-205
Change(current_value, previous_value) ==
    IF previous_value.n # 0
    THEN FloatMul(FloatDiv(FloatSub(current_value, previous_value), previous_value), 100)
    ELSE IF current_value.n = 0 THEN Zero ELSE Frac(100, 1)

\* calculate_period_over_period_changes (lines 197-207)
calculate_period_over_period_changes(current, previous) ==
    Returned("changes",
        [ key \in { metric \o "_change" : metric \in DOMAIN current } |->
            LET metric == CHOOSE m \in DOMAIN current : m \o "_change" = key
            IN  Change(current[metric], GetOr(previous, metric, Zero)) ])

CalculateChanges ==
    /\ changes.fn = "none"
    /\ changes' = calculate_period_over_period_changes(current_period, previous_period)
    /\ UNCHANGED <<current_period, previous_period, metrics_list, aggregated,
                   metricVars, outsideCalculator>>

(***************************************************************************)
(* aggregate_metrics.  A value of a metric map is a float or, as in a      *)
(* processed row, a text; only the former passes isinstance(value, (int,   *)
(* float)).                                                                *)
(***************************************************************************)
MaxMaps == 2

IsNumber(value) == "n" \in DOMAIN value

\* the lists of maps whose spend is a number, a text or missing and whose
\* ctr is a number or missing
MetricsLists ==
    UNION { [1..n -> { Update(s, c) :
                         s \in Optional("spend", MetricValues \cup {[text |-> "x"]}),
                         c \in Optional("ctr", MetricValues) }] :
            n \in 0..MaxMaps }

\* a + b
FloatAdd(a, b) == Frac(a.n * b.d + b.n * a.d, a.d * b.d)

\* lines 165-168 for one key: aggregated.get(key, 0) + value over the maps
\* that hold a number under the key, in list order
RECURSIVE SumOf(_, _)
SumOf(list, key) ==
    IF list = <<>> THEN Zero
    ELSE LET front == SubSeq(list, 1, Len(list) - 1)
             last == list[Len(list)]
         IN  IF key \in DOMAIN last /\ IsNumber(last[key])
             THEN FloatAdd(SumOf(front, key), last[key])
             ELSE SumOf(front, key)

\* a list of rate metrics that leaves ctr out
rate_metrics_without_ctr ==
    {"frequency", "view_rate", "purchase_rate", "add_to_cart_rate", "checkout_rate"}

\* lines 171-174
rate_metrics ==
    {"frequency", "ctr", "view_rate", "purchase_rate", "add_to_cart_rate", "checkout_rate"}

\* aggregate_metrics (lines 158-180)
aggregate_metrics(list) ==
    LET count == Len(list)
        keys == { key \in UNION { DOMAIN list[i] : i \in DOMAIN list } :
                    \E i \in DOMAIN list : key \in DOMAIN list[i] /\ IsNumber(list[i][key]) }
    IN  IF count = 0 THEN Returned("aggregate", Empty)
        ELSE Returned("aggregate",
                 [ key \in keys |->
                     IF key \in rate_metrics
                     THEN FloatDiv(SumOf(list, key), Frac(count, 1))
                     ELSE SumOf(list, key) ])

AggregateMetrics ==
    /\ aggregated.fn = "none"
    /\ aggregated' = aggregate_metrics(metrics_list)
    /\ UNCHANGED <<current_period, previous_period, changes, metrics_list,
                   metricVars, outsideCalculator>>

CalculatorIdle ==
    /\ current_period = Empty
    /\ previous_period = Empty
    /\ changes = NoResult
    /\ metrics_list = <<>>
    /\ aggregated = NoResult

(***************************************************************************)
(* Fetchers.  A name (date range, attribution window, table key, path) is  *)
(* a text, kept as a sequence of chunks so that joining and splitting at   *)
(* "_" are what the code does.  A date is a day number.  The service's     *)
(* answer to a client call is its data or a raised exception; an entity's  *)
(* insight records do not change during a run.                             *)
(***************************************************************************)
Today == 20

MaxEntities == 2

EntityTypes == <<"campaign", "adset", "ad">>

EntitiesOf(type) ==
    CASE type = "campaign" ->
            { [id |-> "c1", name |-> "C1", status |-> "ACTIVE"],
              [id |-> "c2", name |-> "C2", status |-> "PAUSED"] }
      [] type = "adset" ->
            { [id |-> "s1", name |-> "S1", status |-> "ACTIVE",
               targeting |-> [age_min |-> "18", age_max |-> "35", genders |-> <<"1">>]],
              [id |-> "s2", name |-> "S2", status |-> "ACTIVE"] }
      [] type = "ad" ->
            { [id |-> "a1", name |-> "A1", status |-> "ACTIVE", creative |-> [id |-> "cr1"]],
              [id |-> "a2", name |-> "A2", status |-> "ACTIVE"] }

EntityIds == { e["id"] : e \in UNION { EntitiesOf(EntityTypes[i]) : i \in DOMAIN EntityTypes } }

\* the lists of distinct entities of a type, in any order
EntityLists(type) ==
    { l \in UNION { [1..n -> EntitiesOf(type)] : n \in 0..MaxEntities } :
        \A i, j \in DOMAIN l : l[i] = l[j] => i = j }

\* COMMON_METRICS asks the service for cpc, cpm and ctr too (api_config.py
\* 22-24): the record of yesterday carries the service's own values of them
Recent == [date_start |-> Today - 1, impressions |-> "4", clicks |-> "2", spend |-> "1",
           cpc |-> "9", cpm |-> "9", ctr |-> "9"]

Old == [date_start |-> Today - 10, impressions |-> "2", clicks |-> "1", spend |-> "1"]

\* CampaignFetcher asks for COMMON_METRICS only; the other two also for
\* CONVERSION_METRICS, which brings the action lists into the record
InsightLists(type) ==
    {<<>>, <<Recent>>, <<Old, Recent>>, <<Recent, Recent>>}
    \cup (IF type = "campaign" THEN {}
          ELSE { <<Update(Recent, [action_values |-> List(<<Action("purchase", "2")>>)])>> })

\* process_targeting (adset_fetcher.py 29-46); the six other list fields
\* are read like genders
process_targeting(targeting) ==
    [countries |-> GetOr(GetOr(targeting, "geo_locations", Empty), "countries", <<>>),
     age_min |-> GetOr(targeting, "age_min", "None"),
     age_max |-> GetOr(targeting, "age_max", "None"),
     genders |-> GetOr(targeting, "genders", <<>>)]

\* process_creative (ad_fetcher.py 31-47); the five other fields are read
\* like body
process_creative(creative) ==
    [creative_id |-> GetOr(creative, "id", "None"),
     creative_name |-> GetOr(creative, "name", "None"),
     body |-> GetOr(creative, "body", "None")]

\* the methods an AdFetcher object has (ad_fetcher.py 18-152, base.py 14-129)
AdFetcherMethods ==
    {"fetch_data", "process_creative", "process_data", "fetch_ad_insights",
     "get_ad_performance", "export_ad_data", "get_performance_data", "export_data",
     "_export_aggregated_views"}

\* calculate_video_metrics (metrics.py 96-115)
calculate_video_metrics(d) ==
    LET video_views == Float(Get(d, "video_plays"))
        impressions == Float(Get(d, "impressions"))
        spend == Float(Get(d, "spend"))
        completion(field) ==
            IF video_views.n > 0
            THEN FloatMul(FloatDiv(Float(Get(d, field)), video_views), 100) ELSE Zero
    IN  [view_rate |->
             IF impressions.n > 0 THEN FloatMul(FloatDiv(video_views, impressions), 100) ELSE Zero,
         cost_per_video_view |->
             IF video_views.n > 0 THEN FloatDiv(spend, video_views) ELSE Zero,
         video_completion_rate_25 |-> completion("video_plays_at_25_percent"),
         video_completion_rate_50 |-> completion("video_plays_at_50_percent"),
         video_completion_rate_75 |-> completion("video_plays_at_75_percent"),
         video_completion_rate_95 |-> completion("video_plays_at_95_percent"),
         video_completion_rate_100 |-> completion("video_plays_at_100_percent")]

\* calculate_engagement_metrics (metrics.py 128-145)
calculate_engagement_metrics(d) ==
    LET impressions == Float(Get(d, "impressions"))
        rate(engagement_type) ==
            IF impressions.n > 0
            THEN FloatMul(FloatDiv(Float(Get(d, engagement_type)), impressions), 100) ELSE Zero
    IN  [post_engagement_rate |-> rate("post_engagement"),
         post_reactions_rate |-> rate("post_reactions"),
         post_comments_rate |-> rate("post_comments"),
         post_shares_rate |-> rate("post_shares"),
         page_engagement_rate |-> rate("page_engagement")]

\* the metrics dict of one insight (campaign_fetcher.py 74-77,
\* adset_fetcher.py 97-100, ad_fetcher.py 79-84)
InsightMetrics(type, insight) ==
    LET basic == calculate_basic_metrics(insight)
        conversion == calculate_conversion_metrics(insight)
    IN  IF basic.raised \/ conversion.raised THEN Raised("process_data")
        ELSE Returned("process_data",
                 Update(Update([frequency |-> basic.frequency, ctr |-> basic.ctr,
                                cpc |-> basic.cpc, cpm |-> basic.cpm],
                               conversion.values),
                        IF type = "ad"
                        THEN Update(calculate_video_metrics(insight),
                                    calculate_engagement_metrics(insight))
                        ELSE Empty))

\* a row that carries the entity's flattened attributes but no metrics
ProcessedInsightWithoutMetrics(type, entity, flat, insight, metric_values) ==
    Update(Update(Update(Entry(type \o "_id", entity["id"]),
                         Entry(type \o "_name", GetOr(entity, "name", "None"))),
                  [status |-> GetOr(entity, "status", "None"),
                   date |-> GetOr(insight, "date_start", "None")]),
           flat)

\* a row in which the fields of the insight record come after the metrics
\* and replace those of the same name
ProcessedInsightWithPayload(type, entity, flat, insight, metric_values) ==
    Update(ProcessedInsightWithoutMetrics(type, entity, flat, insight, metric_values),
           Update(metric_values,
                  [k \in DOMAIN insight \ {"date_start"} |-> [text |-> insight[k]]]))

\* processed_insight (campaign_fetcher.py 79-87, adset_fetcher.py 102-113,
\* ad_fetcher.py 86-95): the entity's attributes, the date, the flattened
\* targeting or creative, then the metrics; attributes that are read with
\* entity.get like status are left out
ProcessedInsight(type, entity, flat, insight, metric_values) ==
    Update(Update(Update(Update(Entry(type \o "_id", entity["id"]),
                                Entry(type \o "_name", GetOr(entity, "name", "None"))),
                         [status |-> GetOr(entity, "status", "None"),
                          date |-> GetOr(insight, "date_start", "None")]),
                  flat),
           metric_values)

\* process_data from the i-th entity on (campaign_fetcher.py 64-90,
\* adset_fetcher.py 86-116, ad_fetcher.py 61-98).  served maps an entity id
\* to its insight records; the insights call of the fail-th entity raises.
RECURSIVE ProcessFrom(_, _, _, _, _, _, _, _)
ProcessFrom(type, list, served, window, fail, i, issued, rows) ==
    IF i > Len(list) THEN [error |-> "None", calls |-> issued, rows |-> rows]
    ELSE LET entity == list[i]
             creative_id == GetOr(GetOr(entity, "creative", Empty), "id", "None")
             flat == CASE type = "adset" -> process_targeting(GetOr(entity, "targeting", Empty))
                       [] type = "ad" -> process_creative(Empty)
                       [] OTHER -> Empty
             call == [kind |-> "insights", id |-> entity["id"], window |-> window]
             found == served[entity["id"]]
             computed == [j \in DOMAIN found |-> InsightMetrics(type, found[j])]
         IN  IF /\ type = "ad"
                /\ creative_id # "None"
                /\ "fetch_creative_details" \notin AdFetcherMethods
             THEN [error |-> "AttributeError", calls |-> issued, rows |-> <<>>]
             ELSE IF i = fail
             THEN [error |-> "Exception", calls |-> Append(issued, call), rows |-> <<>>]
             ELSE IF \E j \in DOMAIN found : computed[j].raised
             THEN [error |-> "AttributeError", calls |-> Append(issued, call), rows |-> <<>>]
             ELSE ProcessFrom(type, list, served, window, fail, i + 1, Append(issued, call),
                      rows \o [j \in DOMAIN found |->
                                  ProcessedInsight(type, entity, flat, found[j],
                                                   computed[j].values)])

process_data(type, list, served, window, fail) ==
    ProcessFrom(type, list, served, window, fail, 1, <<>>, <<>>)

NoPass == [pass |-> 0, window |-> <<>>, error |-> "None", calls |-> <<>>, rows |-> <<>>]

\* a key that is the date range alone
PerformanceKeyWithoutWindow(date_range, attribution) == date_range

\* f"{date_range}_{attribution}" (base.py 58)
PerformanceKey(date_range, attribution) == date_range \o <<"_">> \o attribution

\* the pair the nested loops of base.py 56-57 reach at their i-th body
PairAt(i) ==
    [date_range |-> date_ranges[((i - 1) \div Len(attribution_windows)) + 1],
     attribution |-> attribution_windows[((i - 1) % Len(attribution_windows)) + 1]]

PairCount == Len(date_ranges) * Len(attribution_windows)

\* get_performance_data up to the end of fetch_data (base.py 50-53;
\* fetch_data: campaign_fetcher.py 17-23, adset_fetcher.py 14-20,
\* ad_fetcher.py 21-27)
FetchData(ok) ==
    /\ fetcher_pc = "idle"
    /\ data_type \in Range(EntityTypes)
    /\ api_calls' = Append(api_calls, [kind |-> "list", id |-> data_type, window |-> <<>>])
    /\ performance_data' = Empty
    /\ IF ok
       THEN /\ entity_data' = entities[data_type]
            /\ pair_index' = 1
            /\ fetcher_pc' = IF PairCount = 0 THEN "returned" ELSE "process"
            /\ UNCHANGED failure
       ELSE /\ fetcher_pc' = "raised"
            /\ failure' = "Exception"
            /\ UNCHANGED <<entity_data, pair_index>>
    /\ UNCHANGED <<data_type, entities, insights, date_ranges, attribution_windows,
                   processed_data, files>>
    /\ UNCHANGED <<clientVars, metricVars, calculatorVars, managerVars>>

\* one body of the nested loops (base.py 58-60), and the return after the
\* last (base.py 62)
ProcessData(fail) ==
    /\ fetcher_pc = "process"
    /\ LET pair == PairAt(pair_index)
           outcome == process_data(data_type, entity_data, insights, pair.attribution, fail)
       IN  /\ processed_data' =
                  [pass |-> processed_data.pass + 1, window |-> pair.attribution,
                   error |-> outcome.error, calls |-> outcome.calls, rows |-> outcome.rows]
           /\ api_calls' = api_calls \o outcome.calls
           /\ IF outcome.error = "None"
              THEN /\ performance_data' =
                          Update(performance_data,
                                 Entry(PerformanceKey(pair.date_range, pair.attribution),
                                       outcome.rows))
                   /\ pair_index' = pair_index + 1
                   /\ fetcher_pc' = IF pair_index = PairCount THEN "returned" ELSE "process"
                   /\ UNCHANGED failure
              ELSE /\ fetcher_pc' = "raised"
                   /\ failure' = outcome.error
                   /\ UNCHANGED <<performance_data, pair_index>>
    /\ UNCHANGED <<data_type, entities, insights, date_ranges, attribution_windows,
                   entity_data, files>>
    /\ UNCHANGED <<clientVars, metricVars, calculatorVars, managerVars>>

\* key.split('_', 1) (base.py 79)
Split(key) ==
    LET at == CHOOSE i \in DOMAIN key : key[i] = "_" /\ \A j \in 1..(i - 1) : key[j] # "_"
    IN  [date_range |-> SubSeq(key, 1, at - 1), attribution |-> SubSeq(key, at + 1, Len(key))]

\* a template without the {window} field
get_export_path_by_date(type, date_range, attribution_window) ==
    <<"exports/", type, "s/", type, "_data_">> \o date_range \o <<".csv">>

\* get_export_path (paths.py 47-57, FILE_TEMPLATES 22-26)
get_export_path(type, date_range, attribution_window) ==
    <<"exports/", type, "s/", type, "_data_">> \o date_range \o <<"_">>
        \o attribution_window \o <<".csv">>

\* the paths of _export_aggregated_views (base.py 116, 127)
AggregatedPaths(type) ==
    { get_export_path(type, <<"weekly">>, <<"aggregated">>),
      get_export_path(type, <<"monthly">>, <<"aggregated">>) }

\* export_data on the mapping get_performance_data returned (base.py
\* 78-90), with _export_aggregated_views (base.py 107-129): df['date'] of a
\* table without rows, which has no columns, raises KeyError
ExportData ==
    /\ fetcher_pc = "returned"
    /\ manager # "meta_ads/main.py"
    /\ LET written == { get_export_path(data_type, Split(key).date_range,
                                        Split(key).attribution) :
                          key \in DOMAIN performance_data }
           lifetime == <<"lifetime", "_", "default">>
       IN  IF lifetime \notin DOMAIN performance_data
           THEN /\ files' = files \cup written
                /\ fetcher_pc' = "exported"
                /\ UNCHANGED failure
           ELSE IF performance_data[lifetime] = <<>>
           THEN /\ files' = files \cup written
                /\ fetcher_pc' = "raised"
                /\ failure' = "KeyError"
           ELSE /\ files' = files \cup written \cup AggregatedPaths(data_type)
                /\ fetcher_pc' = "exported"
                /\ UNCHANGED failure
    /\ UNCHANGED <<data_type, entities, insights, date_ranges, attribution_windows,
                   entity_data, pair_index, processed_data, performance_data, api_calls>>
    /\ UNCHANGED <<clientVars, metricVars, calculatorVars, managerVars>>

NoEntities == [type \in Range(EntityTypes) |-> <<>>]

NoInsights == [id \in EntityIds |-> <<>>]

\* no fetcher at work
FetcherIdle ==
    /\ data_type = "none"
    /\ entities = NoEntities
    /\ insights = NoInsights
    /\ date_ranges = <<>>
    /\ attribution_windows = <<>>
    /\ fetcher_pc = "none"
    /\ entity_data = <<>>
    /\ pair_index = 0
    /\ processed_data = NoPass
    /\ performance_data = Empty
    /\ api_calls = <<>>
    /\ files = {}
    /\ failure = "None"

ManagerIdle == manager = "none" /\ manager_pc = "none" /\ stdout = <<>>

(***************************************************************************)
(* MetaAdsDataManager.fetch_all_data.  meta_ads/main.py calls the three    *)
(* get_*_performance in turn; meta-ads-main.py also calls export_*_data    *)
(* after each and writes a report at the end.  Both call with the default  *)
(* date ranges and attribution windows.                                    *)
(***************************************************************************)
Managers == {"meta_ads/main.py", "meta-ads-main.py"}

\* a manager that goes on to the next entity type after a failure
MayGoOnAfterFailure(m, at) ==
    at \in {"raised", IF m = "meta-ads-main.py" THEN "exported" ELSE "returned"}

\* the statements of one entity type are over, nothing raised
MayGoOn(m, at) == at = (IF m = "meta-ads-main.py" THEN "exported" ELSE "returned")

\* the print and the start of get_*_performance of the first or the next
\* entity type (main.py 47-56, meta-ads-main.py 51-69)
FetchEntityType ==
    /\ \/ manager_pc = "start"
       \/ manager_pc = "fetching" /\ MayGoOn(manager, fetcher_pc)
    /\ LET next == IF manager_pc = "start" THEN 1
                   ELSE 1 + CHOOSE i \in DOMAIN EntityTypes : EntityTypes[i] = data_type
       IN  /\ next \in DOMAIN EntityTypes
           /\ data_type' = EntityTypes[next]
           /\ stdout' = Append(stdout,
                 <<"Fetching ",
                   IF EntityTypes[next] = "adset" THEN "ad set" ELSE EntityTypes[next],
                   " data...">>)
    /\ manager_pc' = "fetching"
    /\ fetcher_pc' = "idle"
    /\ entity_data' = <<>>
    /\ pair_index' = 0
    /\ processed_data' = NoPass
    /\ performance_data' = Empty
    /\ UNCHANGED <<manager, entities, insights, date_ranges, attribution_windows,
                   api_calls, files, failure>>
    /\ UNCHANGED <<clientVars, metricVars, calculatorVars>>

\* the end of the try block (main.py 58, meta-ads-main.py 72-73 with
\* _generate_fetch_report 79-98)
Complete ==
    /\ manager_pc = "fetching"
    /\ data_type = EntityTypes[Len(EntityTypes)]
    /\ MayGoOn(manager, fetcher_pc)
    /\ manager_pc' = "completed"
    /\ stdout' = Append(stdout, <<"Data fetch completed successfully!">>)
    /\ files' = IF manager = "meta-ads-main.py"
                THEN files \cup {<<"exports/", "fetch_report.txt">>}
                ELSE files
    /\ UNCHANGED <<manager, data_type, entities, insights, date_ranges,
                   attribution_windows, fetcher_pc, entity_data, pair_index,
                   processed_data, performance_data, api_calls, failure>>
    /\ UNCHANGED <<clientVars, metricVars, calculatorVars>>

\* the except clause (main.py 60-62, meta-ads-main.py 75-77)
Reraise ==
    /\ manager_pc = "fetching"
    /\ fetcher_pc = "raised"
    /\ manager_pc' = "raised"
    /\ stdout' = Append(stdout,
                   <<IF manager = "meta-ads-main.py" THEN "Error during data fetch: "
                     ELSE "Error during execution: ", failure>>)
    /\ UNCHANGED <<manager, fetcherVars>>
    /\ UNCHANGED <<clientVars, metricVars, calculatorVars>>

\* main() once fetch_all_data is over (main.py 64-69, meta-ads-main.py
\* 100-110): both print "Script failed" for an exception; only
\* meta-ads-main.py raises it again, main.py falls off the end of the except
\* clause and returns
Main ==
    /\ manager_pc \in {"completed", "raised"}
    /\ stdout' = IF manager_pc = "raised"
                 THEN Append(stdout, <<"Script failed: ", failure>>)
                 ELSE stdout
    /\ manager_pc' = IF manager_pc = "raised" /\ manager = "meta-ads-main.py"
                     THEN "propagated"
                     ELSE "returned"
    /\ UNCHANGED <<manager, fetcherVars>>
    /\ UNCHANGED <<clientVars, metricVars, calculatorVars>>

\* either manager about to run fetch_all_data, against a service with or
\* without campaigns, with an ad that has a creative or one that has none,
\* and with or without insights
InitManager ==
    /\ ClientStart(0, 0) /\ MetricsIdle /\ CalculatorIdle
    /\ manager \in Managers
    /\ manager_pc = "start"
    /\ stdout = <<>>
    /\ data_type = "none"
    /\ \E campaigns \in { l \in EntityLists("campaign") : Len(l) < 2 },
          ad \in EntitiesOf("ad") :
          entities = [campaign |-> campaigns,
                      adset |-> <<CHOOSE e \in EntitiesOf("adset") : e["id"] = "s1">>,
                      ad |-> <<ad>>]
    /\ \E served \in {<<>>, <<Recent>>} : insights = [id \in EntityIds |-> served]
    /\ date_ranges = << <<"7", "_", "days">>, <<"28", "_", "days">>, <<"lifetime">> >>
    /\ attribution_windows = << <<"1d", "_", "click">>, <<"7d", "_", "click">>, <<"default">> >>
    /\ fetcher_pc = "none"
    /\ entity_data = <<>>
    /\ pair_index = 0
    /\ processed_data = NoPass
    /\ performance_data = Empty
    /\ api_calls = <<>>
    /\ files = {}
    /\ failure = "None"

\* one fetcher of any type, about to run get_performance_data with one of
\* a few argument lists against a service holding any entity list of the
\* type and any insights for its entities
InitFetcher ==
    /\ ClientStart(0, 0) /\ MetricsIdle /\ CalculatorIdle /\ ManagerIdle
    /\ data_type \in Range(EntityTypes)
    /\ \E list \in EntityLists(data_type) :
          entities = [NoEntities EXCEPT ![data_type] = list]
    /\ \E served \in [{ e["id"] : e \in EntitiesOf(data_type) } -> InsightLists(data_type)] :
          insights = [id \in EntityIds |-> IF id \in DOMAIN served THEN served[id] ELSE <<>>]
    /\ date_ranges \in { <<>>, <<<<"lifetime">>>>, <<<<"7", "_", "days">>, <<"lifetime">>>> }
    /\ attribution_windows \in { <<<<"default">>>>, <<<<"1d", "_", "click">>, <<"default">>>> }
    /\ fetcher_pc = "idle"
    /\ entity_data = <<>>
    /\ pair_index = 0
    /\ processed_data = NoPass
    /\ performance_data = Empty
    /\ api_calls = <<>>
    /\ files = {}
    /\ failure = "None"

(***************************************************************************)
(* Specifications.                                                         *)
(*   Spec          make_request and validate_access against every answer   *)
(*                 of the remote service                                    *)
(*   SpecInsights  get_insights with every argument, against a service     *)
(*                 that serves pages, rate limits and rejects              *)
(*   SpecMetrics   MetricCalculator on every insight record                *)
(*   SpecSpacing   _handle_rate_limiting over a series of HTTP calls        *)
(*   SpecConversion, SpecChanges, SpecAggregate                            *)
(*                 the other calculators, each on every input              *)
(*   SpecFetcher   get_performance_data and export_data of one fetcher     *)
(*   SpecManager   fetch_all_data and main() of both managers              *)
(***************************************************************************)
vars == <<clientVars, metricVars, calculatorVars, fetcherVars, managerVars>>

Init == ClientInit /\ MetricsIdle /\ CalculatorIdle /\ FetcherIdle /\ ManagerIdle

Next ==
    \/ \E ep \in Endpoints, ps \in ListParams, m \in Methods : MakeRequest(ep, ps, m)
    \/ ValidateAccess
    \/ \E resp \in Responses : Attempt(resp)
    \/ AttemptUnsupportedMethod
    \/ \E resp \in Responses : NextPage(resp)

Spec == Init /\ [][Next]_vars

InsightResponses ==
    { Http(200, "OK", "object", FALSE, <<"a">>, FALSE),
      Http(200, "OK", "object", FALSE, <<"b", "c">>, TRUE),
      Http(429, "Too Many Requests", "object", FALSE, <<>>, FALSE),
      Http(400, "Bad Request", "object", FALSE, <<>>, FALSE) }

NextInsights ==
    \/ \E o \in ObjectIds, f \in FieldLists, w \in WindowNames, l \in Levels :
          GetInsights(o, f, w, l)
    \/ \E resp \in InsightResponses : Attempt(resp)
    \/ \E resp \in InsightResponses : NextPage(resp)

SpecInsights == Init /\ [][NextInsights]_vars

\* a client just constructed makes a series of HTTP calls
InitSpacing ==
    ClientStart(0, 0) /\ MetricsIdle /\ CalculatorIdle /\ FetcherIdle /\ ManagerIdle

SpecSpacing == InitSpacing /\ [][\E a \in Arrivals : HandleRateLimitingCall(a)]_vars

InitMetrics ==
    ClientStart(0, 0) /\ MetricsInit /\ CalculatorIdle /\ FetcherIdle /\ ManagerIdle

NextMetrics == CalculateBasicMetrics

SpecMetrics == InitMetrics /\ [][NextMetrics]_vars

InitConversion ==
    /\ ClientStart(0, 0)
    /\ record \in ConversionRecords
    /\ metrics = NoMetrics
    /\ CalculatorIdle
    /\ FetcherIdle
    /\ ManagerIdle

SpecConversion == InitConversion /\ [][CalculateConversionMetrics]_vars

InitChanges ==
    /\ ClientStart(0, 0)
    /\ MetricsIdle
    /\ current_period \in MetricMaps
    /\ previous_period \in MetricMaps
    /\ changes = NoResult
    /\ metrics_list = <<>>
    /\ aggregated = NoResult
    /\ FetcherIdle
    /\ ManagerIdle

SpecChanges == InitChanges /\ [][CalculateChanges]_vars

InitAggregate ==
    /\ ClientStart(0, 0)
    /\ MetricsIdle
    /\ current_period = Empty
    /\ previous_period = Empty
    /\ changes = NoResult
    /\ metrics_list \in MetricsLists
    /\ aggregated = NoResult
    /\ FetcherIdle
    /\ ManagerIdle

SpecAggregate == InitAggregate /\ [][AggregateMetrics]_vars

NextFetcher ==
    \/ \E ok \in BOOLEAN : FetchData(ok)
    \/ \E fail \in 0..MaxEntities : ProcessData(fail)
    \/ ExportData

SpecFetcher == InitFetcher /\ [][NextFetcher]_vars

NextManager ==
    \/ FetchEntityType
    \/ NextFetcher
    \/ Complete
    \/ Reraise
    \/ Main

SpecManager == InitManager /\ [][NextManager]_vars

(***************************************************************************)
(* Properties.                                                             *)
(***************************************************************************)
Over == pc \in {"done", "raised"}

\* the arrays of a page chain, one after the other
RECURSIVE Concat(_)
Concat(ss) == IF ss = <<>> THEN <<>> ELSE Head(ss) \o Concat(Tail(ss))

FirstCallRateLimited == [call |-> "first", cond |-> "rate_limit"]

\* C1: make_request returns the concatenation of the served pages' data
\* arrays, in page order and each in its own order, and an operation whose
\* only attempt succeeds has issued one HTTP call per page.
C1_Pagination ==
    (pc = "done" /\ op = "make_request") =>
        /\ result = "data"
        /\ all_data = Concat(pages)
        /\ (Len(ended) = 1 => calls = Len(pages))

C1_Witness ==
    /\ pc = "done" /\ op = "make_request"
    /\ pages = << <<"b", "c">>, <<"a">>, <<"b", "c">> >>
    /\ all_data = <<"b", "c", "a", "b", "c">>
    /\ calls = 3

\* C2: rate limited on the first call of the first two attempts and served
\* on the third, make_request returns the third attempt's pages, and the
\* wrapper has slept initial_delay*1 and then initial_delay*2 seconds: 5
\* and then 10.
C2_RetryThenSuccess ==
    (/\ pc = "done"
     /\ Len(ended) = 3
     /\ ended[1] = FirstCallRateLimited
     /\ ended[2] = FirstCallRateLimited
     /\ ended[3].cond = "ok") =>
        /\ raised = NoException
        /\ result \in {"data", "True"}
        /\ retry = 2
        /\ all_data = Concat(pages)
        /\ sleeps = <<initial_delay * 1, initial_delay * 2>>
        /\ sleeps = <<5, 10>>
        /\ sleeps[1] < sleeps[2]

C2_Witness ==
    /\ pc = "done" /\ op = "make_request" /\ result = "data"
    /\ ended = <<FirstCallRateLimited, FirstCallRateLimited, [call |-> "none", cond |-> "ok"]>>
    /\ sleeps = <<5, 10>>
    /\ all_data = <<"a">>

\* C3: an operation has at most max_retries = 3 attempts, no attempt is
\* pending after the third, and when every attempt met a rate-limit
\* condition the operation ends with make_request raising the last error.
C3_BoundedRetry ==
    /\ Len(ended) <= max_retries
    /\ max_retries = 3
    /\ (pc \in {"attempt", "paging"} => Len(ended) < max_retries)
    /\ (/\ Over
        /\ \A i \in DOMAIN ended : ended[i].cond = "rate_limit") =>
            /\ raised # NoException
            /\ raised = last_exception

C3_Witness ==
    /\ pc = "raised"
    /\ ended = <<FirstCallRateLimited, FirstCallRateLimited, FirstCallRateLimited>>
    /\ raised = Exc("Exception", <<"Rate limit reached">>)

\* C4: an attempt that fails on anything but a rate-limit condition ends
\* the operation: it is the last attempt, the wrapper has not slept for
\* it, and the failure is raised to make_request's caller.
C4_NoRetryOfOtherFailures ==
    \A i \in DOMAIN ended :
        ended[i].cond = "other" =>
            /\ i = Len(ended)
            /\ Over
            /\ Len(sleeps) = i - 1
            /\ raised # NoException

\* C5: an attempt that met a rate-limit condition, on its first call or on
\* a pagination call, is followed by a backoff sleep, and by another
\* attempt unless it was the third.
C5_RateLimitRetried ==
    \A i \in DOMAIN ended :
        ended[i].cond = "rate_limit" =>
            /\ Len(sleeps) >= i
            /\ (i < max_retries => ~(Over /\ Len(ended) = i))

\* C6: every HTTP call is made at least base_wait_time = 5 seconds after
\* the time the client had recorded for its previous call.
C6_Spacing ==
    calls > 0 => gap >= base_wait_time /\ gap >= 5

\* the third call of a page chain, made after the client slept 10 seconds
C6_Witness ==
    /\ sent.kind = "next"
    /\ calls = 3
    /\ retry = 0
    /\ _retry_count = 2
    /\ gap = 10

\* C7: validate_access never raises; it returns True when make_request
\* returned and False when make_request raised, whatever it raised.
C7_ValidateAccess ==
    op = "validate_access" =>
        /\ pc # "raised"
        /\ (pc = "done" => /\ result \in {"True", "False"}
                           /\ (result = "True") = (raised = NoException))

C7_Witness ==
    /\ op = "validate_access"
    /\ pc = "done"
    /\ result = "False"
    /\ raised = Exc("Exception", <<"Rate limit reached">>)
    /\ Len(sleeps) = 3

\* C8: no log line contains the access token.
C8_NoTokenInLog ==
    \A line \in log : access_token \notin Range(line)

\* C9: for every window name of the table, the first call of get_insights
\* goes to {object_id}/insights with action_attribution_windows equal to
\* the table's list for the name ("default": 7d_click, 1d_view), the
\* level, the comma-joined field list, the fixed time range and the token.
C9_Table ==
    [ w \in {"1d_click", "7d_click", "28d_click", "1d_view", "7d_view", "default"} |->
        IF w = "default" THEN <<"7d_click", "1d_view">> ELSE <<w>> ]

C9_InsightsParams ==
    (/\ op = "get_insights"
     /\ sent.kind = "first"
     /\ args.attribution_window \in DOMAIN C9_Table) =>
        /\ sent.url = <<BASE_URL, "/", args.object_id \o "/insights", "?access_token=", access_token>>
        /\ "action_attribution_windows" \in DOMAIN sent.params
        /\ sent.params.action_attribution_windows = C9_Table[args.attribution_window]
        /\ sent.params.level = args.level
        /\ sent.params.fields = Join(args.fields)
        /\ (args.fields = <<"spend", "impressions", "actions">> =>
               sent.params.fields = <<"spend", ",", "impressions", ",", "actions">>)
        /\ sent.params.time_range = [since |-> "2024-01-01", until |-> "2024-11-17"]

C9_Witness ==
    /\ op = "get_insights"
    /\ sent.kind = "first"
    /\ args.attribution_window = "default"
    /\ args.level = "adset"
    /\ sent.params.action_attribution_windows = <<"7d_click", "1d_view">>
    /\ sent.params.fields = <<"spend", ",", "impressions", ",", "actions">>

\* C10: frequency = impressions/reach, ctr = clicks/impressions*100,
\* cpc = spend/clicks and cpm = spend/impressions*1000 when the denominator
\* is positive, each is 0 when its denominator is 0 or missing, and the
\* calculation raises nothing.
C10_Count(key) ==
    IF key \in DOMAIN record
    THEN CHOOSE k \in 0..(MaxCount + 1) : ToString(k) = record[key]
    ELSE 0

C10_Is(x, numerator, denominator) ==
    IF denominator > 0
    THEN x.d > 0 /\ x.n * denominator = numerator * x.d
    ELSE x = Zero

C10_BasicMetrics ==
    metrics.fn = "basic" =>
        /\ ~metrics.raised
        /\ C10_Is(metrics.frequency, C10_Count("impressions"), C10_Count("reach"))
        /\ C10_Is(metrics.ctr, C10_Count("clicks") * 100, C10_Count("impressions"))
        /\ C10_Is(metrics.cpc, C10_Count("spend"), C10_Count("clicks"))
        /\ C10_Is(metrics.cpm, C10_Count("spend") * 1000, C10_Count("impressions"))

C10_Witness ==
    /\ metrics.fn = "basic"
    /\ record = [impressions |-> "2", clicks |-> "1", spend |-> "3"]
    /\ metrics.frequency = Zero
    /\ metrics.ctr = [n |-> 50, d |-> 1]
    /\ metrics.cpc = [n |-> 3, d |-> 1]
    /\ metrics.cpm = [n |-> 1500, d |-> 1]

\* C11: calculate_conversion_metrics returns purchase_rate,
\* add_to_cart_rate, checkout_rate, cost_per_purchase, cost_per_add_to_cart
\* and cost_per_checkout for every record, and each is 0 when its
\* denominator is 0 or missing (impressions = 0 and spend = 0 included).
C11_Actions == IF "actions" \in DOMAIN record THEN record["actions"] ELSE <<>>

C11_NoneOf(t) ==
    \A i \in DOMAIN C11_Actions :
        C11_Actions[i].action_type = t => C11_Actions[i].value = "0"

C11_ZeroGuard ==
    (metrics.fn = "conversion" /\ ~metrics.raised) =>
        /\ {"purchase_rate", "add_to_cart_rate", "checkout_rate", "cost_per_purchase",
            "cost_per_add_to_cart", "cost_per_checkout"} \subseteq DOMAIN metrics.values
        /\ Get(record, "impressions") = "0" =>
              /\ metrics.values["purchase_rate"] = Zero
              /\ metrics.values["add_to_cart_rate"] = Zero
              /\ metrics.values["checkout_rate"] = Zero
        /\ (Get(record, "spend") = "0" \/ C11_NoneOf("purchase")) =>
              metrics.values["cost_per_purchase"] = Zero
        /\ (Get(record, "spend") = "0" \/ C11_NoneOf("add_to_cart")) =>
              metrics.values["cost_per_add_to_cart"] = Zero
        /\ (Get(record, "spend") = "0" \/ C11_NoneOf("initiate_checkout")) =>
              metrics.values["cost_per_checkout"] = Zero

\* C12: roas = purchase_value/spend when spend > 0, roas = 0 when spend is 0
\* or missing, whatever the record's purchase value is, and the computation
\* never fails.
C12_PurchaseValue ==
    IF "action_values" \in DOMAIN record /\ IsDict(record["action_values"])
    THEN Float(Get(record["action_values"].dict, "purchase")).n
    ELSE 0

C12_Roas ==
    metrics.fn = "conversion" =>
        /\ ~metrics.raised
        /\ "roas" \in DOMAIN metrics.values
        /\ Get(record, "spend") = "0" => metrics.values["roas"] = Zero
        /\ Get(record, "spend") # "0" =>
              /\ metrics.values["roas"].d > 0
              /\ metrics.values["roas"].n * Float(Get(record, "spend")).n
                    = C12_PurchaseValue * metrics.values["roas"].d

\* C13: calculate_period_over_period_changes returns exactly one entry per
\* metric key of current: (current-previous)/previous*100 when previous is
\* not 0; 0 when previous is 0 or absent and current is 0; the flat value 100
\* when previous is 0 or absent and current is not 0.  A key that occurs only
\* in previous produces no entry.
C13_Previous(metric) ==
    IF metric \in DOMAIN previous_period THEN previous_period[metric].n ELSE 0

C13_Entry(x, c, p) ==
    IF p # 0 THEN x.d > 0 /\ x.n * p = (c - p) * 100 * x.d
    ELSE IF c = 0 THEN x = Zero
    ELSE x = [n |-> 100, d |-> 1]

C13_Changes ==
    changes.fn = "changes" =>
        /\ ~changes.raised
        /\ DOMAIN changes.values = { m \o "_change" : m \in DOMAIN current_period }
        /\ Cardinality(DOMAIN changes.values) = Cardinality(DOMAIN current_period)
        /\ \A m \in DOMAIN current_period :
              C13_Entry(changes.values[m \o "_change"], current_period[m].n, C13_Previous(m))

C13_Witness ==
    /\ changes.fn = "changes"
    /\ current_period = [spend |-> Frac(3, 1), ctr |-> Frac(2, 1)]
    /\ previous_period = [spend |-> Frac(2, 1), clicks |-> Frac(1, 1)]
    /\ changes.values = [spend_change |-> Frac(50, 1), ctr_change |-> Frac(100, 1)]

\* C14: over a non-empty list, aggregate_metrics returns for every numeric
\* key the sum of its values across the list, except for the rate metrics
\* (of which ctr occurs here), for which it returns the sum divided by the
\* number of maps in the list; for the empty list it returns the empty map.
RECURSIVE C14_Sum(_, _)
C14_Sum(key, i) ==
    IF i = 0 THEN 0
    ELSE C14_Sum(key, i - 1)
         + (IF key \in DOMAIN metrics_list[i] /\ IsNumber(metrics_list[i][key])
            THEN metrics_list[i][key].n ELSE 0)

C14_NumericKeys ==
    { key \in {"spend", "ctr"} :
        \E i \in DOMAIN metrics_list :
            key \in DOMAIN metrics_list[i] /\ IsNumber(metrics_list[i][key]) }

C14_Aggregate ==
    aggregated.fn = "aggregate" =>
        /\ ~aggregated.raised
        /\ DOMAIN aggregated.values = C14_NumericKeys
        /\ "spend" \in C14_NumericKeys =>
              aggregated.values["spend"] = [n |-> C14_Sum("spend", Len(metrics_list)), d |-> 1]
        /\ "ctr" \in C14_NumericKeys =>
              /\ aggregated.values["ctr"].d > 0
              /\ aggregated.values["ctr"].n * Len(metrics_list)
                    = C14_Sum("ctr", Len(metrics_list)) * aggregated.values["ctr"].d

C14_Witness ==
    /\ aggregated.fn = "aggregate"
    /\ metrics_list = << [spend |-> Frac(1, 1), ctr |-> Frac(1, 1)],
                         [spend |-> Frac(2, 1), ctr |-> Frac(3, 1)] >>
    /\ aggregated.values = [spend |-> Frac(3, 1), ctr |-> Frac(2, 1)]

\* C15: a process_data pass that returns produces exactly one row per
\* (entity, insight record of that entity), in entity-list order and within
\* an entity in insight order, none for an entity without insights; each row
\* carries its entity's id and flattened attributes (for an ad set age_min,
\* age_max, genders) and the metrics derived from its one insight.
C15_Pairs ==
    Concat([ i \in DOMAIN entity_data |->
               [ j \in DOMAIN insights[entity_data[i]["id"]] |->
                   [entity |-> entity_data[i],
                    insight |-> insights[entity_data[i]["id"]][j]] ] ])

C15_Carries(row, entity, insight) ==
    /\ {data_type \o "_id", "date", "frequency", "ctr", "cpc", "cpm", "roas"} \subseteq DOMAIN row
    /\ row[data_type \o "_id"] = entity["id"]
    /\ row["date"] = insight["date_start"]
    /\ data_type = "adset" =>
          /\ {"age_min", "age_max", "genders"} \subseteq DOMAIN row
          /\ row["age_min"] = GetOr(GetOr(entity, "targeting", Empty), "age_min", "None")
          /\ row["age_max"] = GetOr(GetOr(entity, "targeting", Empty), "age_max", "None")
          /\ row["genders"] = GetOr(GetOr(entity, "targeting", Empty), "genders", <<>>)
    /\ row["frequency"] = calculate_basic_metrics(insight).frequency
    /\ row["ctr"] = calculate_basic_metrics(insight).ctr
    /\ row["cpc"] = calculate_basic_metrics(insight).cpc
    /\ row["cpm"] = calculate_basic_metrics(insight).cpm
    /\ row["roas"] = calculate_conversion_metrics(insight).values["roas"]

C15_OneRowPerInsight ==
    (processed_data.pass > 0 /\ processed_data.error = "None") =>
        /\ Len(processed_data.rows) = Len(C15_Pairs)
        /\ \A k \in DOMAIN processed_data.rows :
              C15_Carries(processed_data.rows[k], C15_Pairs[k].entity, C15_Pairs[k].insight)

C15_Witness ==
    /\ data_type = "adset"
    /\ processed_data.pass > 0 /\ processed_data.error = "None"
    /\ Len(entity_data) = 2
    /\ entity_data[1]["id"] = "s1" /\ insights["s1"] = <<Old, Recent>>
    /\ entity_data[2]["id"] = "s2" /\ insights["s2"] = <<>>
    /\ Len(processed_data.rows) = 2
    /\ processed_data.rows[2]["age_min"] = "18"
    /\ processed_data.rows[2]["date"] = Today - 1
    /\ processed_data.rows[2]["ctr"] = [n |-> 50, d |-> 1]
    /\ processed_data.rows[2]["cpc"] = [n |-> 1, d |-> 2]

\* C16: get_performance_data issues the entity-list call exactly once per
\* invocation, and the mapping it returns holds one table under the key
\* "{dateRange}_{attributionWindow}" for every pair of the two argument
\* lists and no other key.
C16_ListCalls == { i \in DOMAIN api_calls : api_calls[i].kind = "list" }

C16_OncePerInvocation ==
    /\ Cardinality(C16_ListCalls) <= 1
    /\ fetcher_pc \in {"process", "returned"} => Cardinality(C16_ListCalls) = 1
    /\ fetcher_pc = "returned" =>
          DOMAIN performance_data =
              { date_ranges[i] \o <<"_">> \o attribution_windows[j] :
                  i \in DOMAIN date_ranges, j \in DOMAIN attribution_windows }

C16_Witness ==
    /\ fetcher_pc = "returned"
    /\ Len(date_ranges) = 2 /\ Len(attribution_windows) = 2
    /\ Cardinality(DOMAIN performance_data) = 4
    /\ <<"7", "_", "days", "_", "1d", "_", "click">> \in DOMAIN performance_data
    /\ Cardinality(C16_ListCalls) = 1
    /\ Len(api_calls) > 4

\* C17: in the mapping get_performance_data returns, a "lifetime" table
\* holds every processed row, and an N-day table holds exactly the processed
\* rows whose date is within the trailing N days of the current date.
C17_Days(date_range) == IF date_range[1] = "7" THEN 7 ELSE 28

C17_DateFiltered ==
    fetcher_pc = "returned" =>
        \A key \in DOMAIN performance_data :
            LET table == performance_data[key]
                date_range == Split(key).date_range
            IN  IF date_range = <<"lifetime">>
                THEN Len(table) = Len(C15_Pairs)
                ELSE /\ \A k \in DOMAIN table :
                           table[k]["date"] >= Today - C17_Days(date_range)
                     /\ Len(table) =
                           Cardinality({ k \in DOMAIN C15_Pairs :
                               C15_Pairs[k].insight["date_start"]
                                   >= Today - C17_Days(date_range) })

\* C18: a pass of AdFetcher.process_data in which no client call fails
\* issues exactly one creative-detail lookup for every ad that has a
\* creative id and none for an ad without, and completes normally with the
\* flattened creative fields in the ads' rows.
C18_NoActionLists ==
    \A id \in EntityIds : \A j \in DOMAIN insights[id] :
        "action_values" \notin DOMAIN insights[id][j]

C18_Lookups(ad) ==
    { i \in DOMAIN processed_data.calls :
        /\ processed_data.calls[i].kind = "creative"
        /\ processed_data.calls[i].id = GetOr(GetOr(ad, "creative", Empty), "id", "None") }

C18_CreativeLookup ==
    (/\ data_type = "ad"
     /\ processed_data.pass > 0
     /\ processed_data.error # "Exception"
     /\ C18_NoActionLists) =>
        /\ processed_data.error = "None"
        /\ \A i \in DOMAIN entity_data :
              Cardinality(C18_Lookups(entity_data[i])) =
                  (IF "creative" \in DOMAIN entity_data[i] THEN 1 ELSE 0)
        /\ \A k \in DOMAIN processed_data.rows :
              "creative_id" \in DOMAIN processed_data.rows[k]

\* C19: export_data writes exactly one CSV file for each key of the tables
\* mapping, and the weekly and the monthly roll-up files if and only if the
\* mapping contains the key "lifetime_default".
C19_Ran == fetcher_pc = "exported" \/ (fetcher_pc = "raised" /\ failure = "KeyError")

C19_Export ==
    C19_Ran =>
        /\ Cardinality(files \ AggregatedPaths(data_type))
              = Cardinality(DOMAIN performance_data)
        /\ AggregatedPaths(data_type) \subseteq files
              <=> <<"lifetime", "_", "default">> \in DOMAIN performance_data

\* C20: the orchestrator takes the entity types strictly in the order
\* campaigns, ad sets, ads; if a fetch or an export raises, fetch_all_data
\* re-raises it, no later entity type is fetched or exported, and the files
\* already written for the earlier entity types stay on disk.
C20_Fetched == [ i \in 1..Cardinality(C16_ListCalls) |->
                   api_calls[CHOOSE k \in C16_ListCalls :
                                Cardinality({ l \in C16_ListCalls : l <= k }) = i].id ]

C20_FilesOf(type) ==
    { get_export_path(type, date_ranges[i], attribution_windows[j]) :
        i \in DOMAIN date_ranges, j \in DOMAIN attribution_windows }

C20_Exported == { type \in Range(EntityTypes) : C20_FilesOf(type) \cap files # {} }

C20_InOrderAndAborting ==
    manager_pc # "none" =>
        /\ C20_Fetched = SubSeq(EntityTypes, 1, Len(C20_Fetched))
        /\ C20_Exported \subseteq Range(C20_Fetched)
        /\ failure # "None" =>
              /\ manager_pc \in {"fetching", "raised", "propagated", "returned"}
              /\ fetcher_pc = "raised"
              /\ C20_Fetched[Len(C20_Fetched)] = data_type
              /\ manager = "meta-ads-main.py" =>
                    \A i \in 1..(Len(C20_Fetched) - 1) :
                        C20_FilesOf(C20_Fetched[i]) \subseteq files
        /\ manager_pc = "raised" => failure # "None"
        /\ manager_pc = "completed" => failure = "None" /\ Len(C20_Fetched) = Len(EntityTypes)
        /\ manager_pc = "returned" /\ failure = "None" => Len(C20_Fetched) = Len(EntityTypes)

C20_Witness ==
    /\ manager = "meta-ads-main.py"
    /\ manager_pc = "raised"
    /\ data_type = "adset"
    /\ failure = "Exception"
    /\ C20_Fetched = <<"campaign", "adset">>
    /\ C20_FilesOf("campaign") \subseteq files
    /\ C20_Exported = {"campaign"}
    /\ Len(stdout) = 3

\* C21: a run in which fetch_all_data fails ends with the exception
\* propagated out of main(); main() never turns a failed run into a normal
\* return.
C21_FailurePropagates ==
    (failure # "None" /\ manager_pc \in {"returned", "propagated"}) =>
        manager_pc = "propagated"

\* C22: between finishing one entity type and starting the next the
\* orchestrator pauses: a sleep is made after the last call for one entity
\* type and before the first call for the next, so a run that has started
\* its i-th entity type has slept at least i - 1 times.
C22_PauseBetweenTypes ==
    \A i \in 2..Len(C20_Fetched) : Len(sleeps) >= i - 1

\* C23: in every table get_performance_data returns, no two rows carry the
\* same (entity id, date) pair, whatever entity list and insight records the
\* service returned.
C23_UniqueIdAndDate ==
    fetcher_pc = "returned" =>
        \A key \in DOMAIN performance_data :
            LET table == performance_data[key]
            IN  \A i, j \in DOMAIN table :
                    (/\ table[i][data_type \o "_id"] = table[j][data_type \o "_id"]
                     /\ table[i].date = table[j].date) => i = j

\* C24: in every row of every table returned, each derived metric has the
\* value MetricCalculator computed from the row's insight record, also when
\* the record itself carries a field of the same name (ctr, cpc, cpm).
C24_Derived(insight) == InsightMetrics(data_type, insight).values

C24_ComputedNotRemote ==
    fetcher_pc \in {"returned", "exported"} =>
        \A key \in DOMAIN performance_data :
            /\ Len(performance_data[key]) = Len(C15_Pairs)
            /\ \A k \in DOMAIN performance_data[key] :
                  \A m \in DOMAIN C24_Derived(C15_Pairs[k].insight) :
                      /\ m \in DOMAIN performance_data[key][k]
                      /\ performance_data[key][k][m] = C24_Derived(C15_Pairs[k].insight)[m]

C24_Witness ==
    /\ fetcher_pc = "returned"
    /\ data_type = "campaign"
    /\ \E key \in DOMAIN performance_data :
          /\ Len(performance_data[key]) = 2
          /\ C15_Pairs[2].insight["ctr"] = "9"
          /\ C15_Pairs[2].insight["cpm"] = "9"
          /\ performance_data[key][2]["ctr"] = [n |-> 50, d |-> 1]
          /\ performance_data[key][2]["cpm"] = [n |-> 250, d |-> 1]
          /\ performance_data[key][2]["cpc"] = [n |-> 1, d |-> 2]

\* C25: when the action list holds several entries of one action type,
\* calculate_conversion_metrics counts the first entry's value for purchase,
\* add_to_cart and initiate_checkout; a type absent from the list counts 0.
C25_First(t) ==
    IF \E i \in DOMAIN C11_Actions : C11_Actions[i].action_type = t
    THEN Float(C11_Actions[CHOOSE i \in DOMAIN C11_Actions :
                              /\ C11_Actions[i].action_type = t
                              /\ \A j \in 1..(i - 1) : C11_Actions[j].action_type # t].value)
    ELSE Zero

C25_Rate(t) == FloatMul(FloatDiv(C25_First(t), Float(Get(record, "impressions"))), 100)

C25_Cost(t) ==
    IF C25_First(t).n > 0 THEN FloatDiv(Float(Get(record, "spend")), C25_First(t)) ELSE Zero

C25_FirstValuePerType ==
    (metrics.fn = "conversion" /\ ~metrics.raised) =>
        /\ "purchase_rate" \in DOMAIN metrics.values =>
              /\ metrics.values["purchase_rate"] = C25_Rate("purchase")
              /\ metrics.values["add_to_cart_rate"] = C25_Rate("add_to_cart")
              /\ metrics.values["checkout_rate"] = C25_Rate("initiate_checkout")
        /\ "cost_per_purchase" \in DOMAIN metrics.values =>
              /\ metrics.values["cost_per_purchase"] = C25_Cost("purchase")
              /\ metrics.values["cost_per_add_to_cart"] = C25_Cost("add_to_cart")
              /\ metrics.values["cost_per_checkout"] = C25_Cost("initiate_checkout")

\* C26: _retry_count is incremented by every call that had to sleep for
\* spacing and reset to 0 only by a call that arrives when the required wait
\* has already elapsed, whether or not a rate-limit response was ever
\* received; so the k-th call of a run of back-to-back calls is spaced
\* min(5 * 2^(k-1), 300) seconds, and no spacing sleep exceeds 300 seconds.
C26_Wait(rc) == Min(5 * Pow2(rc), 300)

\* the position of call k in its run of calls that arrived too early
C26_RunIndex(k) ==
    k - CHOOSE j \in 0..(k - 1) :
            /\ j > 0 => ended[j].slept = 0
            /\ \A i \in (j + 1)..(k - 1) : ended[i].slept > 0

C26_SpacingCounter ==
    /\ \A k \in DOMAIN ended :
          ended[k].call = "spaced" =>
              /\ ended[k].slept > 0 => ended[k].after = ended[k].before + 1
              /\ ended[k].slept = 0 => ended[k].after = 0
              /\ ended[k].after = 0 => ended[k].elapsed >= C26_Wait(ended[k].before)
              /\ ended[k].slept <= 300
              /\ ended[k].slept > 0 =>
                    ended[k].elapsed + ended[k].slept = C26_Wait(C26_RunIndex(k) - 1)
    /\ (ended # <<>> /\ ended[Len(ended)].call = "spaced") =>
          _retry_count = ended[Len(ended)].after

C26_Witness ==
    /\ calls = 8
    /\ \A k \in DOMAIN ended : ended[k].call = "spaced" /\ ended[k].cond = "other"
    /\ [k \in DOMAIN ended |-> ended[k].slept] = <<0, 5, 10, 20, 40, 80, 160, 300>>
    /\ _retry_count = 7

\* C27: a retry starts the request again from its first page: what a failed
\* attempt had collected is dropped, and the data of an operation that
\* succeeds after a retry is each page of the last attempt exactly once.
C27_RestartsFromFirstPage ==
    (/\ Len(ended) >= 1
     /\ ended[1].call \in {"first", "next"}
     /\ pc = "paging" \/ (pc = "done" /\ result \in {"data", "True"})) =>
        /\ all_data = Concat(pages)
        /\ Len(pages) <= calls - Cardinality({ i \in DOMAIN ended :
                                                     ended[i].call \in {"first", "next"} })

C27_Witness ==
    /\ pc = "done" /\ op = "make_request" /\ result = "data"
    /\ Len(ended) = 2
    /\ ended[1].call = "next"
    /\ calls = 4
    /\ pages = << <<"a">>, <<"b", "c">> >>
    /\ all_data = <<"a", "b", "c">>

\* C28: the wrapper sleeps after every attempt it takes for rate limited,
\* the last one included: three such attempts make three sleeps of 5, 10
\* and 20 seconds before the error is raised, and the sleeps are as many as
\* those attempts.
C28_Limited ==
    IF pc = "attempt" THEN Len(ended)
    ELSE IF pc \in {"raised", "done"} /\ raised # NoException /\ HasRateLimitPhrase(raised.msg)
    THEN Len(ended)
    ELSE Len(ended) - 1

C28_SleepsAfterEveryAttempt ==
    (pc \in {"attempt", "done", "raised"} /\ Len(ended) >= 1
        /\ ended[1].call \in {"first", "next", "none"}) =>
        /\ Len(sleeps) = C28_Limited
        /\ \A i \in DOMAIN sleeps : sleeps[i] = 5 * Pow2(i - 1)
        /\ (/\ Over
            /\ Len(ended) = 3
            /\ \A i \in DOMAIN ended : ended[i] = FirstCallRateLimited) =>
               /\ sleeps = <<5, 10, 20>>
               /\ raised = Exc("Exception", <<"Rate limit reached">>)

C28_Witness ==
    /\ pc = "raised" /\ op = "make_request"
    /\ ended = <<FirstCallRateLimited, FirstCallRateLimited, FirstCallRateLimited>>
    /\ sleeps = <<5, 10, 20>>
    /\ retry = 2
    /\ calls = 3

\* C29: get_insights with a window name that is not in the table does not
\* fail: it issues the insights request without action_attribution_windows,
\* every other parameter being what a known name gets.
C29_UnknownWindow ==
    (op = "get_insights" /\ args.attribution_window \notin DOMAIN C9_Table) =>
        /\ calls = 0 => pc = "attempt" /\ raised = NoException
        /\ sent.kind = "first" =>
              /\ sent.url = <<BASE_URL, "/", args.object_id \o "/insights",
                              "?access_token=", access_token>>
              /\ DOMAIN sent.params =
                     {"fields", "level", "time_range", "limit", "access_token"}
              /\ sent.params.level = args.level
              /\ sent.params.fields = Join(args.fields)
              /\ sent.params.time_range = [since |-> "2024-01-01", until |-> "2024-11-17"]
              /\ sent.params.limit = 100
              /\ sent.params.access_token = access_token

C29_Witness ==
    /\ op = "get_insights"
    /\ args.attribution_window = "30d_click"
    /\ sent.kind = "first"
    /\ pc = "done" /\ result = "data"
    /\ all_data = <<"a">>
    /\ "action_attribution_windows" \notin DOMAIN sent.params

\* C30: for one entity type export_data writes the table of key k to
\* "{type}_data_{k}.csv", wherever the key was split, so distinct keys get
\* distinct files; and for the configured date ranges and attribution
\* windows no such file is the weekly or the monthly roll-up file.
C30_FileOf(type, key) == <<"exports/", type, "s/", type, "_data_">> \o key \o <<".csv">>

\* the keys of DATE_RANGES and of ATTRIBUTION_WINDOWS (api_config.py 121-137)
C30_ConfiguredKeys ==
    { date_range \o <<"_">> \o window :
        date_range \in { <<"1", "_", "day">>, <<"7", "_", "days">>, <<"28", "_", "days">>,
                         <<"90", "_", "days">>, <<"lifetime">> },
        window \in { <<"1d", "_", "click">>, <<"7d", "_", "click">>, <<"28d", "_", "click">>,
                     <<"1d", "_", "view">>, <<"7d", "_", "view">>, <<"default">> } }

C30_PathOf(type, key) == get_export_path(type, Split(key).date_range, Split(key).attribution)

C30_DistinctPaths ==
    /\ C19_Ran =>
          /\ files \ AggregatedPaths(data_type)
                = { C30_FileOf(data_type, key) : key \in DOMAIN performance_data }
          /\ \A k1, k2 \in DOMAIN performance_data :
                C30_PathOf(data_type, k1) = C30_PathOf(data_type, k2) => k1 = k2
    /\ data_type \in Range(EntityTypes) =>
          \A k1 \in C30_ConfiguredKeys :
              /\ C30_PathOf(data_type, k1) = C30_FileOf(data_type, k1)
              /\ C30_PathOf(data_type, k1) \notin AggregatedPaths(data_type)
              /\ \A k2 \in C30_ConfiguredKeys :
                    C30_PathOf(data_type, k1) = C30_PathOf(data_type, k2) => k1 = k2

C30_Witness ==
    /\ fetcher_pc = "exported"
    /\ data_type = "adset"
    /\ Cardinality(DOMAIN performance_data) = 4
    /\ Split(<<"7", "_", "days", "_", "1d", "_", "click">>)
          = [date_range |-> <<"7">>, attribution |-> <<"days", "_", "1d", "_", "click">>]
    /\ <<"exports/", "adset", "s/", "adset", "_data_", "7", "_", "days", "_", "1d", "_",
         "click", ".csv">> \in files
    /\ Cardinality(files) = 6
    /\ AggregatedPaths("adset") \subseteq files

====
